---------------------------- MODULE Spec2Model ----------------------------
(***************************************************************************)
(* Model of src/app.py, the isotope production dashboard script.           *)
(*                                                                         *)
(* One run of the script is a straight-line pipeline: read the table,      *)
(* clean the production column, attach coordinates and ISO codes, split    *)
(* the isotope lists, read the two filter widgets, filter, and derive the  *)
(* viewport, the top-10 ranking, the isotope counts and the                *)
(* isotope-country matrix.  Each statement group is one action; pc is the  *)
(* position of the run in the script.                                      *)
(*                                                                         *)
(* Representation.                                                         *)
(*  - A text cell is a sequence of one-character strings, so that split,   *)
(*    strip and numeric parsing are computed character by character.       *)
(*  - A cell of a column is a tagged record: Str(s), Num(v) or NaN.        *)
(*  - Production values are integers (TBq); latitudes and longitudes are   *)
(*    integers in hundredths of a degree.                                  *)
(*  - A data frame is a sequence of rows; every row carries its pandas     *)
(*    index label in the field "index".                                    *)
(*  - "bound" is the set of Python names the run has assigned so far.      *)
(***************************************************************************)
EXTENDS Integers, Sequences, FiniteSets, TLC

VARIABLES pc, uploaded_file, csv_file, df, min_production, selected_countries,
          filtered_df, lat, lon, top_countries, all_isotopes, isotope_counts,
          isotope_matrix, bound

vars == <<pc, uploaded_file, csv_file, df, min_production, selected_countries,
          filtered_df, lat, lon, top_countries, all_isotopes, isotope_counts,
          isotope_matrix, bound>>

(***************************************************************************)
(* Bounds of the model.                                                    *)
(***************************************************************************)
\* Longest table enumerated row by row from RawRows.
MaxRows == 2
\* Length of the one long table (more rows than the ranking keeps).
LongRows == 12

(***************************************************************************)
(* Cells.                                                                  *)
(***************************************************************************)
Str(s) == [kind |-> "str", s |-> s]
Num(v) == [kind |-> "num", v |-> v]
NaN == [kind |-> "nan"]

\* Whitespace removed by str.strip().
Whitespace == {" ", "\t", "\n"}

Digits == <<"0", "1", "2", "3", "4", "5", "6", "7", "8", "9">>

IsDigit(c) == \E i \in 1..10 : Digits[i] = c

DigitVal(c) == (CHOOSE i \in 1..10 : Digits[i] = c) - 1


(***************************************************************************)
(* Reference tables (hundredths of a degree).                              *)
(***************************************************************************)
COUNTRY_COORDS ==
    "Australia" :> [lat |-> -2527, lon |-> 13378] @@
    "Austria" :> [lat |-> 4752, lon |-> 1455] @@
    "Belarus" :> [lat |-> 5371, lon |-> 2795] @@
    "Belgium" :> [lat |-> 5050, lon |-> 447] @@
    "Brazil" :> [lat |-> -1424, lon |-> -5193] @@
    "Chile" :> [lat |-> -3568, lon |-> -7154] @@
    "Czech Republic" :> [lat |-> 4982, lon |-> 1547] @@
    "Egypt" :> [lat |-> 2682, lon |-> 3080] @@
    "European Commission" :> [lat |-> 5085, lon |-> 435] @@
    "Finland" :> [lat |-> 6192, lon |-> 2575] @@
    "France" :> [lat |-> 4623, lon |-> 221] @@
    "Germany" :> [lat |-> 5117, lon |-> 1045] @@
    "India" :> [lat |-> 2059, lon |-> 7896] @@
    "Indonesia" :> [lat |-> -79, lon |-> 11392] @@
    "Iran" :> [lat |-> 3243, lon |-> 5369] @@
    "Japan" :> [lat |-> 3620, lon |-> 13825] @@
    "Korea" :> [lat |-> 3591, lon |-> 12777] @@
    "Pakistan" :> [lat |-> 3038, lon |-> 6935] @@
    "South Africa" :> [lat |-> -3056, lon |-> 2294] @@
    "Spain" :> [lat |-> 4046, lon |-> -375] @@
    "Switzerland" :> [lat |-> 4682, lon |-> 823] @@
    "Syria" :> [lat |-> 3480, lon |-> 3899] @@
    "Turkey" :> [lat |-> 3896, lon |-> 3524] @@
    "USA" :> [lat |-> 3709, lon |-> -9571]

ISO_CODES ==
    "Australia" :> "AUS" @@
    "Austria" :> "AUT" @@
    "Belarus" :> "BLR" @@
    "Belgium" :> "BEL" @@
    "Brazil" :> "BRA" @@
    "Chile" :> "CHL" @@
    "Czech Republic" :> "CZE" @@
    "Egypt" :> "EGY" @@
    "European Commission" :> "EUR" @@
    "Finland" :> "FIN" @@
    "France" :> "FRA" @@
    "Germany" :> "DEU" @@
    "India" :> "IND" @@
    "Indonesia" :> "IDN" @@
    "Iran" :> "IRN" @@
    "Japan" :> "JPN" @@
    "Korea" :> "KOR" @@
    "Pakistan" :> "PAK" @@
    "South Africa" :> "ZAF" @@
    "Spain" :> "ESP" @@
    "Switzerland" :> "CHE" @@
    "Syria" :> "SYR" @@
    "Turkey" :> "TUR" @@
    "USA" :> "USA"

\* The empty dict {} given as the default of the outer .get().
EmptyDict == <<>>

\* Faulty variant of DictGet: the key is matched after folding case and
\* trimming blanks.
FoldKey(key) == IF key \in {"usa", "USA "} THEN "USA" ELSE key

DictGetFolded(d, key, default) ==
    IF FoldKey(key) \in DOMAIN d THEN d[FoldKey(key)] ELSE default

\* dict.get(key, default): exact match of the key, never an error.
DictGet(d, key, default) == IF key \in DOMAIN d THEN d[key] ELSE default

\* lambda x: COUNTRY_COORDS.get(x, {}).get('lat', 0)
LatitudeOf(x) == DictGet(DictGet(COUNTRY_COORDS, x, EmptyDict), "lat", 0)

\* lambda x: COUNTRY_COORDS.get(x, {}).get('lon', 0)
LongitudeOf(x) == DictGet(DictGet(COUNTRY_COORDS, x, EmptyDict), "lon", 0)

\* lambda x: ISO_CODES.get(x, '')
IsoOf(x) == DictGet(ISO_CODES, x, "")

(***************************************************************************)
(* pd.to_numeric(..., errors='coerce') and fillna(0) on one cell.          *)
(* The text cells of the model are written over digits, "-", "N" and "R";  *)
(* over that alphabet a text is numeric exactly when it is an optional     *)
(* minus sign followed by one or more digits.                              *)
(***************************************************************************)
RECURSIVE DigitsValue(_)
DigitsValue(d) ==
    IF d = <<>> THEN 0
    ELSE 10 * DigitsValue(SubSeq(d, 1, Len(d) - 1)) + DigitVal(d[Len(d)])

\* Faulty variant of ParseNumeric: a leading minus sign is not accepted.
ParseNumericUnsigned(s) ==
    IF s # <<>> /\ \A i \in 1..Len(s) : IsDigit(s[i])
    THEN [kind |-> "num", v |-> DigitsValue(s)]
    ELSE [kind |-> "nan"]

ParseNumeric(s) ==
    LET neg == s # <<>> /\ s[1] = "-"
        body == IF neg THEN Tail(s) ELSE s
    IN  IF body # <<>> /\ \A i \in 1..Len(body) : IsDigit(body[i])
        THEN Num(IF neg THEN 0 - DigitsValue(body) ELSE DigitsValue(body))
        ELSE NaN

ToNumeric(cell) == IF cell.kind = "str" THEN ParseNumeric(cell.s) ELSE cell

FillNa(cell, value) == IF cell.kind = "nan" THEN Num(value) ELSE cell

(***************************************************************************)
(* x.split(',') and iso.strip() on a text.                                 *)
(***************************************************************************)
RECURSIVE Split(_, _)
Split(s, sep) ==
    IF \A i \in 1..Len(s) : s[i] # sep THEN <<s>>
    ELSE LET i == CHOOSE k \in 1..Len(s) :
                      s[k] = sep /\ \A j \in 1..(k - 1) : s[j] # sep
         IN  <<SubSeq(s, 1, i - 1)>> \o Split(SubSeq(s, i + 1, Len(s)), sep)

RECURSIVE LStrip(_)
LStrip(s) == IF s # <<>> /\ s[1] \in Whitespace THEN LStrip(Tail(s)) ELSE s

RECURSIVE RStrip(_)
RStrip(s) ==
    IF s # <<>> /\ s[Len(s)] \in Whitespace
    THEN RStrip(SubSeq(s, 1, Len(s) - 1)) ELSE s

Strip(s) == RStrip(LStrip(s))

\* lambda x: [iso.strip() for iso in x.split(',')] if isinstance(x, str) else []
IsotopeListOf(x) ==
    IF x.kind = "str"
    THEN LET parts == Split(x.s, ",")
         IN  [i \in 1..Len(parts) |-> Strip(parts[i])]
    ELSE <<>>

(***************************************************************************)
(* Input tables: what pd.read_csv returns for a CSV file.  A Country cell  *)
(* is a string, a Major_Isotopes cell a text or NaN (empty field), a       *)
(* Total_Production_TBq cell a number, a text or NaN.                      *)
(***************************************************************************)
RawRow(c, iso, prod) ==
    [Country |-> c, Major_Isotopes |-> iso, Total_Production_TBq |-> prod]

RawRows ==
    { RawRow("USA", Str(<<"A", ",", "B">>), Num(2)),
      RawRow("USA", Str(<<"B">>), Str(<<"N", "R">>)),
      RawRow("usa", Str(<<"A", ",", ",", "B">>), Num(1)),
      RawRow("USA ", Str(<<"A", ",", " ">>), Str(<<"2">>)),
      RawRow("Iran", NaN, Num(0)),
      RawRow("Iran", Str(<<" ", "B", " ", ",", "A">>), Str(<<"-", "1">>)),
      RawRow("Atlantis", Str(<<"A", ",", "A">>), NaN),
      RawRow("Belgium", Str(<<"B", ",", "A">>), Num(2)),
      RawRow("Belgium", Str(<<" ">>), Str(<<"1", "-">>)) }

RECURSIVE SeqsOfLen(_, _)
SeqsOfLen(S, n) ==
    IF n = 0 THEN {<<>>}
    ELSE {Append(t, r) : t \in SeqsOfLen(S, n - 1), r \in S}

\* Every table of 1..MaxRows rows over RawRows.
ShortTables == UNION {SeqsOfLen(RawRows, n) : n \in 1..MaxRows}

LongCountries == <<"Belgium", "India", "Chile">>

LongIsotopes == <<Str(<<"A">>), Str(<<"B", ",", "A">>)>>

\* A table of LongRows rows: three countries in turn, productions 1..6 in
\* turn, so that every production value is shared by several rows.
LongTable ==
    [i \in 1..LongRows |->
        RawRow(LongCountries[((i - 1) % 3) + 1],
               LongIsotopes[((i - 1) % 2) + 1],
               Num(((i - 1) % 6) + 1))]

Tables == ShortTables \cup {LongTable}

\* The tables an upload may hold (an uploaded table is read and nothing
\* else: one row is enough to tell it from the table of the static path).
UploadTables == {t \in ShortTables : Len(t) = 1}

\* st.file_uploader returns None or the uploaded file.
NoFile == [present |-> FALSE, table |-> <<>>]

File(t) == [present |-> TRUE, table |-> t]

\* pd.read_csv: the rows of the file under a RangeIndex 0..n-1.
ReadCsv(t) == [i \in 1..Len(t) |-> [index |-> i - 1] @@ t[i]]

(***************************************************************************)
(* Program constants.                                                      *)
(***************************************************************************)
\* The slider's initial value.
SliderDefault == 100
\* The slider's upper end lies this far above the largest production.
SliderHeadroom == 1000
\* head(10)
TopN == 10

(***************************************************************************)
(* Column and frame operations.                                            *)
(***************************************************************************)
RECURSIVE SumSeq(_)
SumSeq(xs) == IF xs = <<>> THEN 0 ELSE Head(xs) + SumSeq(Tail(xs))

SetMax(S) == CHOOSE m \in S : \A v \in S : v <= m

\* Series.max(): the largest number of the column, NaN skipped.
ColumnMax(d) ==
    SetMax({d[i].Total_Production_TBq.v :
              i \in {j \in DOMAIN d : d[j].Total_Production_TBq.kind = "num"}})

\* Series.unique(): the countries of the frame.
UniqueCountries(d) == {d[i].Country : i \in DOMAIN d}

\* pd.to_numeric(errors='coerce') then fillna(0) on the production column.
DataCleaning(d) ==
    [i \in DOMAIN d |->
        [d[i] EXCEPT !.Total_Production_TBq = FillNa(ToNumeric(@), 0)]]

\* The Latitude, Longitude and ISO columns.
AddCoordinates(d) ==
    [i \in DOMAIN d |->
        [Latitude |-> LatitudeOf(d[i].Country),
         Longitude |-> LongitudeOf(d[i].Country),
         ISO |-> IsoOf(d[i].Country)] @@ d[i]]

\* The Isotope_List column.
CreateIsotopeLists(d) ==
    [i \in DOMAIN d |->
        [Isotope_List |-> IsotopeListOf(d[i].Major_Isotopes)] @@ d[i]]

\* Series >= number: a comparison with NaN is False.
CellGe(cell, m) == cell.kind = "num" /\ cell.v >= m

\* Faulty variant of FilterMask: the threshold itself is excluded.
FilterMaskStrict(row, m, sel) ==
    /\ row.Total_Production_TBq.kind = "num"
    /\ row.Total_Production_TBq.v > m
    /\ row.Country \in sel

\* (df['Total_Production_TBq'] >= min_production) & df['Country'].isin(...)
FilterMask(row, m, sel) ==
    CellGe(row.Total_Production_TBq, m) /\ row.Country \in sel

\* df[mask]: the rows whose mask is True, in the frame's order.
ApplyFilters(d, m, sel) ==
    LET Keep(row) == FilterMask(row, m, sel)
    IN  SelectSeq(d, Keep)

\* A float as a fraction num/den; Series.mean() of an empty column is NaN.
Frac(n, d) == [kind |-> "num", num |-> n, den |-> d]

SeriesMean(xs) == IF xs = <<>> THEN NaN ELSE Frac(SumSeq(xs), Len(xs))

\* Faulty variant of ViewportLat: the mean is taken of an empty view too.
ViewportLatUnguarded(view) ==
    SeriesMean([i \in DOMAIN view |-> view[i].Latitude])

\* filtered_df['Latitude'].mean() if not filtered_df.empty else 0
ViewportLat(view) ==
    IF view # <<>>
    THEN SeriesMean([i \in DOMAIN view |-> view[i].Latitude])
    ELSE Frac(0, 1)

\* filtered_df['Longitude'].mean() if not filtered_df.empty else 0
ViewportLon(view) ==
    IF view # <<>>
    THEN SeriesMean([i \in DOMAIN view |-> view[i].Longitude])
    ELSE Frac(0, 1)

(***************************************************************************)
(* Sorting.  sort_values and value_counts sort with the default            *)
(* kind='quicksort', which does not fix the order of equal keys: the       *)
(* result is any arrangement of the positions with non-increasing keys.    *)
(***************************************************************************)
RECURSIVE Orderings(_)
Orderings(S) ==
    IF S = {} THEN {<<>>}
    ELSE UNION {{<<x>> \o t : t \in Orderings(S \ {x})} : x \in S}

RECURSIVE ArgSortFrom(_, _)
ArgSortFrom(keys, rem) ==
    IF rem = {} THEN {<<>>}
    ELSE LET m == SetMax({keys[i] : i \in rem})
             G == {i \in rem : keys[i] = m}
         IN  {a \o b : a \in Orderings(G), b \in ArgSortFrom(keys, rem \ G)}

\* Every indexer an unstable descending argsort of keys may return.
ArgSortDesc(keys) == ArgSortFrom(keys, DOMAIN keys)

\* frame.take(indexer)
Take(d, indexer) == [i \in DOMAIN indexer |-> d[indexer[i]]]

\* Faulty variant of SortValuesDesc: the sort is ascending.
SortValuesAsc(view) ==
    {Take(view, [i \in DOMAIN p |-> p[Len(p) + 1 - i]]) :
        p \in ArgSortDesc([i \in DOMAIN view |-> view[i].Total_Production_TBq.v])}

\* sort_values('Total_Production_TBq', ascending=False): every outcome.
SortValuesDesc(view) ==
    {Take(view, p) :
        p \in ArgSortDesc([i \in DOMAIN view |-> view[i].Total_Production_TBq.v])}

\* head(n)
HeadRows(d, n) == SubSeq(d, 1, IF Len(d) < n THEN Len(d) ELSE n)

(***************************************************************************)
(* Isotope analysis.                                                       *)
(***************************************************************************)
\* for isotopes in df['Isotope_List']: all_isotopes.extend(isotopes)
RECURSIVE ExtendAll(_, _)
ExtendAll(acc, lists) ==
    IF lists = <<>> THEN acc
    ELSE ExtendAll(acc \o Head(lists), Tail(lists))

\* Faulty variant of AllIsotopes: the lists of the filtered view are
\* collected instead of those of the frame given.
AllIsotopesOfView(d) ==
    ExtendAll(<<>>, [i \in DOMAIN filtered_df |-> filtered_df[i].Isotope_List])

AllIsotopes(d) == ExtendAll(<<>>, [i \in DOMAIN d |-> d[i].Isotope_List])

\* The distinct values of a sequence in order of first appearance.
RECURSIVE FirstSeen(_, _)
FirstSeen(acc, xs) ==
    IF xs = <<>> THEN acc
    ELSE FirstSeen(IF \E i \in DOMAIN acc : acc[i] = Head(xs)
                   THEN acc ELSE Append(acc, Head(xs)),
                   Tail(xs))

Occurrences(x, xs) == Cardinality({i \in DOMAIN xs : xs[i] = x})

\* pd.Series(xs).value_counts().reset_index(): one row per distinct value
\* with its number of occurrences, sorted by count, descending.
ValueCounts(xs) ==
    LET uniq == FirstSeen(<<>>, xs)
        table == [i \in DOMAIN uniq |->
                    [Isotope |-> uniq[i], Count |-> Occurrences(uniq[i], xs)]]
    IN  {Take(table, p) :
            p \in ArgSortDesc([i \in DOMAIN table |-> table[i].Count])}

\* Faulty variant of RowEntries: the production is split among the
\* isotopes of the row.
RowEntriesProRata(row) ==
    [k \in DOMAIN row.Isotope_List |->
        [Isotope |-> row.Isotope_List[k],
         Country |-> row.Country,
         Production |-> [kind |-> "num",
                         v |-> row.Total_Production_TBq.v \div Len(row.Isotope_List)]]]

\* The entries one row of the view appends to isotope_matrix.
RowEntries(row) ==
    [k \in DOMAIN row.Isotope_List |->
        [Isotope |-> row.Isotope_List[k],
         Country |-> row.Country,
         Production |-> row.Total_Production_TBq]]

\* for _, row in filtered_df.iterrows(): for isotope in row['Isotope_List']
RECURSIVE IsotopeMatrix(_)
IsotopeMatrix(view) ==
    IF view = <<>> THEN <<>>
    ELSE RowEntries(Head(view)) \o IsotopeMatrix(Tail(view))

(***************************************************************************)
(* Widgets.                                                                *)
(***************************************************************************)
\* The slider runs over the integers 0 .. int(max) + 1000; the values tried
\* are its low end, the small productions, its initial value and its top.
SliderValues(d) ==
    {m \in {0, 1, 2, SliderDefault, ColumnMax(d) + SliderHeadroom} :
        m <= ColumnMax(d) + SliderHeadroom}

\* The multiselect offers the countries of the frame; any subset may be
\* selected.
MultiselectValues(d) == SUBSET UniqueCountries(d)

\* Faulty variant of InElseBranch: the steps after the read run for an
\* upload as well.
InElseBranchAlways(f) == TRUE

\* "if uploaded_file:" is false for None; everything from the second read
\* to the last table sits in the else branch.
InElseBranch(f) == ~f.present

(***************************************************************************)
(* The run.                                                                *)
(***************************************************************************)
Init ==
    /\ pc = "load"
    /\ uploaded_file \in {NoFile} \cup {File(t) : t \in UploadTables}
    /\ csv_file \in Tables
    /\ df = <<>>
    /\ min_production = 0
    /\ selected_countries = {}
    /\ filtered_df = <<>>
    /\ lat = NaN
    /\ lon = NaN
    /\ top_countries = <<>>
    /\ all_isotopes = <<>>
    /\ isotope_counts = <<>>
    /\ isotope_matrix = <<>>
    /\ bound = {}

\* Lines 101-108: the uploader, then the table from the upload or from the
\* static path (read twice there).
Load ==
    /\ pc = "load"
    /\ df' = IF uploaded_file.present
             THEN ReadCsv(uploaded_file.table)
             ELSE ReadCsv(csv_file)
    /\ bound' = bound \cup {"uploaded_file", "df"}
    /\ pc' = IF InElseBranch(uploaded_file) THEN "clean" ELSE "main"
    /\ UNCHANGED <<uploaded_file, csv_file, min_production, selected_countries,
                   filtered_df, lat, lon, top_countries, all_isotopes,
                   isotope_counts, isotope_matrix>>

\* Lines 110-113.
Clean ==
    /\ pc = "clean"
    /\ df' = DataCleaning(df)
    /\ pc' = "coords"
    /\ UNCHANGED <<uploaded_file, csv_file, min_production, selected_countries,
                   filtered_df, lat, lon, top_countries, all_isotopes,
                   isotope_counts, isotope_matrix, bound>>

\* Lines 115-118.
Coordinates ==
    /\ pc = "coords"
    /\ df' = AddCoordinates(df)
    /\ pc' = "isotopes"
    /\ UNCHANGED <<uploaded_file, csv_file, min_production, selected_countries,
                   filtered_df, lat, lon, top_countries, all_isotopes,
                   isotope_counts, isotope_matrix, bound>>

\* Lines 120-123.
IsotopeLists ==
    /\ pc = "isotopes"
    /\ df' = CreateIsotopeLists(df)
    /\ pc' = "filters"
    /\ UNCHANGED <<uploaded_file, csv_file, min_production, selected_countries,
                   filtered_df, lat, lon, top_countries, all_isotopes,
                   isotope_counts, isotope_matrix, bound>>

\* Lines 125-138: the two widgets return what the user set.
Filters ==
    /\ pc = "filters"
    /\ \E m \in SliderValues(df), sel \in MultiselectValues(df) :
          /\ min_production' = m
          /\ selected_countries' = sel
    /\ bound' = bound \cup {"min_production", "selected_countries"}
    /\ pc' = "apply"
    /\ UNCHANGED <<uploaded_file, csv_file, df, filtered_df, lat, lon,
                   top_countries, all_isotopes, isotope_counts, isotope_matrix>>

\* Lines 140-144.
Apply ==
    /\ pc = "apply"
    /\ filtered_df' = ApplyFilters(df, min_production, selected_countries)
    /\ bound' = bound \cup {"filtered_df"}
    /\ pc' = "viewport"
    /\ UNCHANGED <<uploaded_file, csv_file, df, min_production,
                   selected_countries, lat, lon, top_countries, all_isotopes,
                   isotope_counts, isotope_matrix>>

\* Lines 153-155.
Viewport ==
    /\ pc = "viewport"
    /\ lat' = ViewportLat(filtered_df)
    /\ lon' = ViewportLon(filtered_df)
    /\ bound' = bound \cup {"lat", "lon"}
    /\ pc' = "top"
    /\ UNCHANGED <<uploaded_file, csv_file, df, min_production,
                   selected_countries, filtered_df, top_countries, all_isotopes,
                   isotope_counts, isotope_matrix>>

\* Line 213.
TopCountries ==
    /\ pc = "top"
    /\ \E sorted \in SortValuesDesc(filtered_df) :
          top_countries' = HeadRows(sorted, TopN)
    /\ bound' = bound \cup {"top_countries"}
    /\ pc' = "counts"
    /\ UNCHANGED <<uploaded_file, csv_file, df, min_production,
                   selected_countries, filtered_df, lat, lon, all_isotopes,
                   isotope_counts, isotope_matrix>>

\* Lines 250-256.
IsotopeCounts ==
    /\ pc = "counts"
    /\ all_isotopes' = AllIsotopes(df)
    /\ isotope_counts' \in ValueCounts(AllIsotopes(df))
    /\ bound' = bound \cup {"all_isotopes", "isotope_counts"}
    /\ pc' = "matrix"
    /\ UNCHANGED <<uploaded_file, csv_file, df, min_production,
                   selected_countries, filtered_df, lat, lon, top_countries,
                   isotope_matrix>>

\* Lines 283-291.
Matrix ==
    /\ pc = "matrix"
    /\ isotope_matrix' = IsotopeMatrix(filtered_df)
    /\ bound' = bound \cup {"isotope_matrix"}
    /\ pc' = "main"
    /\ UNCHANGED <<uploaded_file, csv_file, df, min_production,
                   selected_countries, filtered_df, lat, lon, top_countries,
                   all_isotopes, isotope_counts>>

\* Lines 320-321 and 92-98: main() writes the title and the captions.
Main ==
    /\ pc = "main"
    /\ pc' = "done"
    /\ UNCHANGED <<uploaded_file, csv_file, df, min_production,
                   selected_countries, filtered_df, lat, lon, top_countries,
                   all_isotopes, isotope_counts, isotope_matrix, bound>>

Next ==
    \/ Load
    \/ Clean
    \/ Coordinates
    \/ IsotopeLists
    \/ Filters
    \/ Apply
    \/ Viewport
    \/ TopCountries
    \/ IsotopeCounts
    \/ Matrix
    \/ Main

Spec == Init /\ [][Next]_vars

(***************************************************************************)
(* Properties.                                                             *)
(***************************************************************************)
Prod(row) == row.Total_Production_TBq

\* The rows of df that pass the filter, by position.
Matching ==
    {i \in DOMAIN df :
        /\ Prod(df[i]).kind = "num"
        /\ Prod(df[i]).v >= min_production
        /\ df[i].Country \in selected_countries}

\* C1: the filtered view holds exactly the rows of the dataset whose
\* production is >= min_production (equality included) and whose country is
\* selected: every row of the view is such a row, every such row is in the
\* view, and none appears twice.
C1_FilteredViewExact ==
    "filtered_df" \in bound =>
        /\ \A k \in DOMAIN filtered_df : \E i \in Matching : filtered_df[k] = df[i]
        /\ \A i \in Matching : \E k \in DOMAIN filtered_df : filtered_df[k] = df[i]
        /\ Len(filtered_df) = Cardinality(Matching)

\* C1 witness: a view that keeps a row whose production equals the
\* threshold, drops a row for its production and drops a row for its country.
C1_Witness ==
    /\ "filtered_df" \in bound
    /\ \E k \in DOMAIN filtered_df : Prod(filtered_df[k]).v = min_production
    /\ \E i \in DOMAIN df :
          Prod(df[i]).v < min_production /\ df[i].Country \in selected_countries
    /\ \E i \in DOMAIN df :
          Prod(df[i]).v >= min_production /\ df[i].Country \notin selected_countries

\* The decimal text of an integer, and the integers a text cell writes
\* (over the texts of RawRows a text is parseable exactly when it is one of
\* these decimal texts).
OracleRange == 20

RECURSIVE Decimal(_)
Decimal(n) ==
    IF n < 0 THEN <<"-">> \o Decimal(0 - n)
    ELSE IF n < 10 THEN <<Digits[n + 1]>>
    ELSE Decimal(n \div 10) \o <<Digits[(n % 10) + 1]>>

Written(raw) ==
    IF raw.kind = "num" THEN {raw.v}
    ELSE IF raw.kind = "str"
    THEN {n \in (0 - OracleRange)..OracleRange : Decimal(n) = raw.s}
    ELSE {}

\* The production column has been cleaned (the run is past line 113).
Cleaned == pc \in {"coords", "isotopes", "filters", "apply", "viewport", "top",
                   "counts", "matrix"} \/ (pc \in {"main", "done"} /\ ~uploaded_file.present)

\* C2: after cleaning, every production cell is a number (no missing-value
\* marker is left); it is 0 when the raw cell was NaN or a text that is not
\* a number ("NR" included), and it is the written number itself, negative
\* ones included, when the raw cell could be parsed.
C2_UnparseableIsZero ==
    Cleaned =>
        /\ Len(df) = Len(csv_file)
        /\ \A i \in DOMAIN df :
              LET raw == csv_file[i].Total_Production_TBq
              IN  /\ Prod(df[i]).kind = "num"
                  /\ Written(raw) = {} => Prod(df[i]).v = 0
                  /\ \A n \in Written(raw) : Prod(df[i]).v = n

\* C2 witness: a cleaned table with an "NR" cell now 0 and a text cell
\* "-1" now -1.
C2_Witness ==
    /\ Cleaned
    /\ \E i \in DOMAIN df :
          /\ csv_file[i].Total_Production_TBq = Str(<<"N", "R">>)
          /\ Prod(df[i]) = Num(0)
    /\ \E i \in DOMAIN df :
          /\ csv_file[i].Total_Production_TBq = Str(<<"-", "1">>)
          /\ Prod(df[i]) = Num(0 - 1)

\* The isotope lists have been made (the run is past line 123).
Listed == pc \in {"filters", "apply", "viewport", "top", "counts", "matrix"}
          \/ (pc \in {"main", "done"} /\ ~uploaded_file.present)

\* The comma-separated segments of a text that are not empty once trimmed.
NonEmptySegments(s) ==
    LET parts == Split(s, ",")
    IN  {k \in DOMAIN parts : \E j \in DOMAIN parts[k] : parts[k][j] \notin Whitespace}

\* C3: every isotopes sequence has as many elements as the source field has
\* non-empty trimmed comma-separated segments, none of its elements is the
\* empty string, and a missing field gives the empty sequence.
C3_IsotopesNonEmptySegments ==
    Listed =>
        \A i \in DOMAIN df :
            LET x == df[i].Major_Isotopes
            IN  IF x.kind = "str"
                THEN /\ Len(df[i].Isotope_List) = Cardinality(NonEmptySegments(x.s))
                     /\ \A k \in DOMAIN df[i].Isotope_List : df[i].Isotope_List[k] # <<>>
                ELSE df[i].Isotope_List = <<>>

\* The coordinates have been attached (the run is past line 118).
Located == pc = "isotopes" \/ Listed

\* C4: a country that is a key of the reference tables gets the tables'
\* latitude, longitude and ISO code; any other string, also one that differs
\* from a key only by case or by a trailing blank, gets 0, 0 and "".
C4_ExactLookup ==
    Located =>
        \A i \in DOMAIN df :
            LET c == df[i].Country
            IN  /\ c \in DOMAIN COUNTRY_COORDS =>
                      /\ df[i].Latitude = COUNTRY_COORDS[c].lat
                      /\ df[i].Longitude = COUNTRY_COORDS[c].lon
                /\ c \in DOMAIN ISO_CODES => df[i].ISO = ISO_CODES[c]
                /\ c \in {"usa", "USA ", "Atlantis"} =>
                      /\ df[i].Latitude = 0
                      /\ df[i].Longitude = 0
                      /\ df[i].ISO = ""
                /\ c = "USA" =>
                      /\ df[i].Latitude = 3709
                      /\ df[i].Longitude = 0 - 9571
                      /\ df[i].ISO = "USA"
                /\ c \notin DOMAIN COUNTRY_COORDS =>
                      df[i].Latitude = 0 /\ df[i].Longitude = 0
                /\ c \notin DOMAIN ISO_CODES => df[i].ISO = ""

\* C4 witness: a located table with a row "USA" next to a row "usa".
C4_Witness ==
    /\ Located
    /\ \E i, j \in DOMAIN df :
          /\ df[i].Country = "USA" /\ df[i].ISO = "USA"
          /\ df[j].Country = "usa" /\ df[j].ISO = "" /\ df[j].Latitude = 0

\* The ranking is min(TopN, size of the view) distinct rows of the view, in
\* non-increasing order of production, and no row left out has a larger
\* production than a row kept.
TopNRanked ==
    /\ Len(top_countries) =
          (IF Len(filtered_df) < TopN THEN Len(filtered_df) ELSE TopN)
    /\ \A k \in DOMAIN top_countries :
          \E i \in DOMAIN filtered_df : top_countries[k] = filtered_df[i]
    /\ \A k, l \in DOMAIN top_countries :
          k < l => /\ top_countries[k].index # top_countries[l].index
                   /\ Prod(top_countries[k]).v >= Prod(top_countries[l]).v
    /\ \A i \in DOMAIN filtered_df :
          (\A k \in DOMAIN top_countries : top_countries[k] # filtered_df[i]) =>
              \A k \in DOMAIN top_countries :
                  Prod(top_countries[k]).v >= Prod(filtered_df[i]).v

\* Rows of the ranking with equal production stand in the order they have
\* in the view (the view is in the order of the index labels).
TopNTiesInInputOrder ==
    \A k, l \in DOMAIN top_countries :
        (k < l /\ Prod(top_countries[k]).v = Prod(top_countries[l]).v) =>
            top_countries[k].index < top_countries[l].index

OccurrencesInDataset(x) ==
    UNION {{<<i, k>> : k \in {j \in DOMAIN df[i].Isotope_List :
                                  df[i].Isotope_List[j] = x}} :
           i \in DOMAIN df}

\* C6: the count listed for an isotope is the number of its occurrences in
\* the isotopes sequences of all rows of the unfiltered dataset, whatever the
\* filter is (a repeat inside one row counts each time); every isotope of
\* the dataset is listed once, every count is >= 1, and the table is in
\* non-increasing order of count.
C6_FrequencyOverDataset ==
    "isotope_counts" \in bound =>
        /\ \A e \in DOMAIN isotope_counts :
              /\ isotope_counts[e].Count =
                    Cardinality(OccurrencesInDataset(isotope_counts[e].Isotope))
              /\ isotope_counts[e].Count >= 1
        /\ \A i \in DOMAIN df : \A k \in DOMAIN df[i].Isotope_List :
              \E e \in DOMAIN isotope_counts :
                  isotope_counts[e].Isotope = df[i].Isotope_List[k]
        /\ \A e, f \in DOMAIN isotope_counts :
              e < f => /\ isotope_counts[e].Isotope # isotope_counts[f].Isotope
                       /\ isotope_counts[e].Count >= isotope_counts[f].Count

\* C6 witness: counts taken while the filter drops a row that lists
\* isotopes, over a dataset with an isotope repeated inside one row.
C6_Witness ==
    /\ "isotope_counts" \in bound
    /\ \E i \in DOMAIN df :
          /\ df[i].Isotope_List # <<>>
          /\ \A k \in DOMAIN filtered_df : filtered_df[k] # df[i]
    /\ \E i \in DOMAIN df : \E k, l \in DOMAIN df[i].Isotope_List :
          k < l /\ df[i].Isotope_List[k] = df[i].Isotope_List[l]
    /\ \E e \in DOMAIN isotope_counts : isotope_counts[e].Count >= 2

\* The (row, isotope position) pairs of the filtered view.
ViewPairs ==
    UNION {{<<i, k>> : k \in DOMAIN filtered_df[i].Isotope_List} :
           i \in DOMAIN filtered_df}

\* The place in the matrix of the entry of pair <<i, k>>.
PlaceOf(i, k) == Cardinality({q \in ViewPairs : q[1] < i}) + k

\* C7: the matrix has one entry per (row, isotope position) pair of the
\* filtered view and no other entry; the entry of a pair carries the
\* isotope at that position, the row's country and the row's whole
\* production.
C7_MatrixOnePerPair ==
    "isotope_matrix" \in bound =>
        /\ Len(isotope_matrix) = Cardinality(ViewPairs)
        /\ \A q \in ViewPairs :
              /\ PlaceOf(q[1], q[2]) \in DOMAIN isotope_matrix
              /\ isotope_matrix[PlaceOf(q[1], q[2])] =
                    [Isotope |-> filtered_df[q[1]].Isotope_List[q[2]],
                     Country |-> filtered_df[q[1]].Country,
                     Production |-> Prod(filtered_df[q[1]])]

\* C7 witness: a matrix over a view that holds a row of two isotopes and a
\* positive production, while the filter drops another row.
C7_Witness ==
    /\ "isotope_matrix" \in bound
    /\ Len(filtered_df) < Len(df)
    /\ \E i \in DOMAIN filtered_df :
          /\ Len(filtered_df[i].Isotope_List) >= 2
          /\ Prod(filtered_df[i]).v > 0
    /\ Len(isotope_matrix) >= 2

\* No row of the dataset passes the filter: no country is selected, or the
\* threshold lies above every production.
NothingPasses ==
    \/ selected_countries = {}
    \/ \A i \in DOMAIN df : Prod(df[i]).v < min_production

\* C9: when nothing passes the filter the view is the empty frame, and on an
\* empty view every later step runs: the viewport is latitude 0 and
\* longitude 0, the sort of the empty view has the empty frame as its one
\* result, the ranking is empty, the matrix is the empty list, and the run
\* ends with every aggregate assigned.
C9_EmptyViewTolerated ==
    /\ ("filtered_df" \in bound /\ NothingPasses) => filtered_df = <<>>
    /\ ("filtered_df" \in bound /\ filtered_df = <<>>) =>
          /\ "lat" \in bound => lat = Frac(0, 1)
          /\ "lon" \in bound => lon = Frac(0, 1)
          /\ "top_countries" \in bound => top_countries = <<>>
          /\ "isotope_matrix" \in bound => isotope_matrix = <<>>
          /\ pc = "top" => SortValuesDesc(filtered_df) = {<<>>}
          /\ pc = "counts" => ValueCounts(AllIsotopes(df)) # {}
          /\ pc = "done" =>
                {"lat", "lon", "top_countries", "isotope_counts",
                 "isotope_matrix"} \subseteq bound

\* C9 witness: a finished run whose threshold, the slider's top, lies above
\* every production while every country is selected.
C9_Witness ==
    /\ pc = "done"
    /\ "filtered_df" \in bound
    /\ filtered_df = <<>>
    /\ selected_countries = UniqueCountries(df)
    /\ min_production = ColumnMax(df) + SliderHeadroom
    /\ lat = Frac(0, 1)
    /\ isotope_matrix = <<>>

\* The names the else branch assigns after the table is read.
DerivedNames ==
    {"min_production", "selected_countries", "filtered_df", "lat", "lon",
     "top_countries", "all_isotopes", "isotope_counts", "isotope_matrix"}

\* The columns of a table as it is read.
RawColumns == {"index", "Country", "Major_Isotopes", "Total_Production_TBq"}

\* C10: a run with an upload reads the uploaded table and then goes
\* straight to its end: the table keeps its raw columns and cells, and no
\* filter value, filtered view or aggregate is ever assigned.  A run without
\* an upload reads the table of the static path and ends with every derived
\* table assigned, the dataset being the rows of that table, one for one.
C10_PipelineOnlyWithoutUpload ==
    /\ uploaded_file.present =>
          /\ pc \in {"load", "main", "done"}
          /\ bound \cap DerivedNames = {}
          /\ pc # "load" =>
                /\ df = ReadCsv(uploaded_file.table)
                /\ \A i \in DOMAIN df : DOMAIN df[i] = RawColumns
    /\ (~uploaded_file.present /\ pc = "done") =>
          /\ DerivedNames \subseteq bound
          /\ Len(df) = Len(csv_file)
          /\ \A i \in DOMAIN df :
                /\ df[i].index = i - 1
                /\ df[i].Country = csv_file[i].Country
                /\ df[i].Major_Isotopes = csv_file[i].Major_Isotopes
                /\ RawColumns \cup {"Latitude", "Longitude", "ISO", "Isotope_List"}
                      = DOMAIN df[i]
          /\ \A k \in DOMAIN filtered_df : \E i \in DOMAIN df : filtered_df[k] = df[i]

\* C10 witness: a finished run with an upload whose "NR" cell is still the
\* text it was read as.
C10_Witness ==
    /\ pc = "done"
    /\ uploaded_file.present
    /\ \E i \in DOMAIN df : Prod(df[i]) = Str(<<"N", "R">>)
    /\ "filtered_df" \notin bound

=============================================================================
